---- MODULE Spec2Model ----
(***************************************************************************)
(* A model of the loop station's Track (src/src/core/track.rs): the        *)
(* recording state machine, the sample buffer and playhead, and the capped *)
(* undo/redo history.                                                      *)
(*                                                                         *)
(* Samples are f32 in the source; the model uses small integers, which add *)
(* exactly, and bounds their magnitude in the guards.  The track never     *)
(* branches on a sample's value, so the input blocks are the ramps 1, 2, ..*)
(* A Rust panic (remainder by zero, index out of bounds) is the result     *)
(* "Panic": the call unwinds where it stood and the track is used no       *)
(* further.                                                                *)
(*                                                                         *)
(* Spec explores short runs with every interleaving of the calls; SpecHist *)
(* and SpecCap let the destructive calls run on past the history cap of 32 *)
(* entries and keep the sample traffic small instead.                      *)
(*                                                                         *)
(* SpecPool and SpecRace model the BufferPool of src/src/core/buffer.rs    *)
(* with its handles, SpecClock the MasterClock of src/src/sync/clock.rs    *)
(* and the AudioEngine that owns it; each leaves the other parts alone.    *)
(***************************************************************************)
EXTENDS Integers, Sequences, FiniteSets, TLC

VARIABLES
    state,        \* Track.state
    buffer,       \* Track.buffer.samples: one sequence of samples per channel
    cursor_pos,   \* Track.cursor_pos
    loop_length,  \* Track.loop_length: <<>> is None, <<n>> is Some(n)
    undo_stack,   \* Track.undo_stack, oldest entry first
    redo_stack,   \* Track.redo_stack, oldest entry first
    call,         \* the operation called last
    result,       \* what that call returned
    output,       \* the slice the last call wrote, <<>> unless process_output
    last_input,   \* the block the last call recorded or mixed in, else <<>>
    budget,       \* the bounds of the run: calls left by kind, recording length
    session,      \* history: the samples fed since start_recording
    hist,         \* history: the snapshots taken before each destructive call
    saved,        \* history: the track as it was before the last undo
    started,      \* history: whether a call found the track out of Idle,
                  \* how often start_recording succeeded
    pool,         \* BufferPool.pool: channel count -> queue of storages
    max_buffers,  \* BufferPool.max_buffers
    handles,      \* the PooledBuffer handles: where each stands, what it owns
    next_id,      \* the allocations made so far, naming each storage
    got,          \* the storage the last get handed out, as handed out
    bpm,          \* MasterClock.bpm
    sample_rate,  \* MasterClock.sample_rate
    beat_counter, \* MasterClock.beat_counter
    clock_call,   \* the clock or engine operation called last, and its result
    advanced,     \* history: the advance calls so far and the sum of their n
    active,       \* JackAudio.active, the flag shared with the callback
    callback,     \* the audio callback: where it stands, what it returned
    abuf,         \* an AudioBuffer of buffer.rs
    buf_call,     \* the AudioBuffer operation called last, and its result
    chain,        \* an EffectsChain: its effects and its enabled flag
    chain_call    \* the last EffectsChain::process: its buffer and result

vars == <<state, buffer, cursor_pos, loop_length, undo_stack, redo_stack,
          call, result, output, last_input, budget, session, hist, saved,
          started,
          pool, max_buffers, handles, next_id, got,
          bpm, sample_rate, beat_counter, clock_call, advanced,
          active, callback, abuf, buf_call, chain, chain_call>>

poolVars == <<pool, max_buffers, handles, next_id, got>>

clockVars == <<bpm, sample_rate, beat_counter, clock_call, advanced>>

jackVars == <<active, callback>>

bufVars == <<abuf, buf_call>>

chainVars == <<chain, chain_call>>

trackVars == <<state, buffer, cursor_pos, loop_length, undo_stack, redo_stack>>

----------------------------------------------------------------------------
(* Bounds of the model *)

NumChannels == 2       \* channels of the track
MaxLen == 2            \* Spec: samples one recording may hold
MaxDestructive == 2    \* Spec: destructive calls of a run
MaxIO == 3             \* Spec: recording, overdubbing and playing calls of a run
HistLen == 1           \* SpecHist: samples one recording may hold
HistIO == 1            \* SpecHist: recording, overdubbing and playing calls
CapLen == 0            \* SpecCap: samples one recording may hold
CapIO == 0             \* SpecCap: recording, overdubbing and playing calls
MaxLog == 33           \* snapshots the history variable hist.log follows

MaxChannels == 2       \* SpecPool: the larger channel count a get asks for
MaxCapacity == 1       \* SpecPool: the larger capacity a get asks for
MaxWrite == 1          \* SpecPool: samples a holder writes into a storage
MaxHandles == 3        \* SpecPool: PooledBuffer handles alive at one time
RaceHandles == 2       \* SpecRace: PooledBuffer handles alive at one time
MaxAdvances == 3       \* SpecClock: advance calls of a run
MaxK == 2
MaxSlice == 2        \* samples in one slice handed to an AudioBuffer
MaxBufCalls == 3     \* calls made on one AudioBuffer
MaxEffects == 3      \* effects in one chain
MaxProcess == 2      \* calls of EffectsChain::process
MaxCallbacks == 5    \* audio callbacks the JACK server makes              \* SpecPool: max_buffers the pool may be built with

MaxBlock == MaxLen     \* samples in one input block, frames in one output slice
MaxAmp == MaxLen + 1   \* magnitude an overdubbed sample may reach
MaxCursor == MaxLen + 1  \* cursor an overdub may reach

(* Program constants *)

HistoryCap == 32       \* save_to_history: undo_stack.len() >= 32
EngineBpm == 120       \* AudioEngine::new: MasterClock::new(sample_rate, 120.0)

----------------------------------------------------------------------------
(* TrackState, TrackError *)

TrackState == {"Idle", "Recording", "Playing", "Overdubbing", "Stopped", "Muted"}

Destructive == {"start_recording", "start_overdub", "apply_effects", "quantize"}

(* VecDeque *)

back_Front(s) == s[1]
back(s) == s[Len(s)]
pop_back_Front(s) == Tail(s)
pop_back(s) == SubSeq(s, 1, Len(s) - 1)
pop_front(s) == Tail(s)
push_back(s, e) == Append(s, e)

(* usize::min, usize::max *)

Min(a, b) == IF a <= b THEN a ELSE b
Max(a, b) == IF a >= b THEN a ELSE b

(* Option<usize> *)

None == <<>>
Some(n) == <<n>>
unwrap_or(o, d) == IF o = None THEN d ELSE o[1]

(* AudioBuffer of track.rs *)

AudioBuffer_new(channels) == [c \in 1..channels |-> <<>>]
append_Truncating(b, samples) ==
    [c \in 1..Len(b) |-> b[c] \o SubSeq(samples, 1, Len(samples) - 1)]
append(b, samples) == [c \in 1..Len(b) |-> b[c] \o samples]
clear(b) == [c \in 1..Len(b) |-> <<>>]
len(b) == Len(b[1])
is_empty(b) == len(b) = 0

(* EffectsProcessor, Quantizer: the placeholders of the source *)

process_sample(sample) == sample
process_buffer(b) == b
quantizer_quantize(b) == b

BufferHistory(b, c) == [buffer |-> b, cursor_pos |-> c]

(* The track as one value *)
TrackRec ==
    [state |-> state, buffer |-> buffer, cursor_pos |-> cursor_pos,
     loop_length |-> loop_length, undo_stack |-> undo_stack,
     redo_stack |-> redo_stack]

----------------------------------------------------------------------------
(* The guards of the transitions *)

CanStartRecording_AlsoPlaying(s) == s \in {"Idle", "Stopped", "Playing"}
CanStartRecording_AlsoRecording(s) == s \in {"Idle", "Stopped", "Recording"}
CanStartRecording(s) == s \in {"Idle", "Stopped"}
CanStopRecording(s) == s = "Recording"
CanStartOverdub_AlsoRecording(s) == s \in {"Playing", "Recording"}
CanStartOverdub(s) == s = "Playing"

save_to_history_NoPush(us, b, c) ==
    [undo_stack |-> IF Len(us) >= HistoryCap THEN pop_front(us) ELSE us,
     redo_stack |-> <<>>]
save_to_history_EvictNewest(us, b, c) ==
    LET kept == IF Len(us) >= HistoryCap THEN pop_back(us) ELSE us
    IN  [undo_stack |-> push_back(kept, BufferHistory(b, c)),
         redo_stack |-> <<>>]
save_to_history_NoEvict(us, b, c) ==
    [undo_stack |-> push_back(us, BufferHistory(b, c)), redo_stack |-> <<>>]
save_to_history_KeepRedo(us, b, c) ==
    LET kept == IF Len(us) >= HistoryCap THEN pop_front(us) ELSE us
    IN  [undo_stack |-> push_back(kept, BufferHistory(b, c)),
         redo_stack |-> redo_stack]

(* save_to_history: evict the oldest entry at the cap, push, clear redo *)
save_to_history(us, b, c) ==
    LET kept == IF Len(us) >= HistoryCap THEN pop_front(us) ELSE us
    IN  [undo_stack |-> push_back(kept, BufferHistory(b, c)),
         redo_stack |-> <<>>]

RECURSIVE mix_loop_Replace(_, _, _, _)
mix_loop_Replace(ch, cur, input, i) ==
    IF i > Len(input) THEN ch
    ELSE LET pos == (cur + (i - 1)) % Len(ch)
         IN  mix_loop_Replace([ch EXCEPT ![pos + 1] = input[i]], cur, input,
                              i + 1)

(* The overdub loop of process_input: channel 0 after mixing input[i..] in *)
RECURSIVE mix_loop(_, _, _, _)
mix_loop(ch, cur, input, i) ==
    IF i > Len(input) THEN ch
    ELSE LET pos == (cur + (i - 1)) % Len(ch)
         IN  mix_loop([ch EXCEPT ![pos + 1] = @ + input[i]], cur, input, i + 1)

RECURSIVE output_loop_LateWrap(_, _, _, _, _)
output_loop_LateWrap(ch, length, cur, out, k) ==
    IF k > Len(out) THEN [cursor_pos |-> cur, output |-> out, panic |-> FALSE]
    ELSE IF length = 0 THEN [cursor_pos |-> cur, output |-> out, panic |-> TRUE]
    ELSE IF (cur % length) + 1 > Len(ch)
         THEN [cursor_pos |-> cur, output |-> out, panic |-> TRUE]
    ELSE LET sample == ch[(cur % length) + 1]
             next == IF cur + 1 > length THEN 0 ELSE cur + 1
         IN  output_loop_LateWrap(ch, length, next,
                                  [out EXCEPT ![k] = process_sample(sample)],
                                  k + 1)

(* The frame loop of process_output from frame k on *)
RECURSIVE output_loop(_, _, _, _, _)
output_loop(ch, length, cur, out, k) ==
    IF k > Len(out) THEN [cursor_pos |-> cur, output |-> out, panic |-> FALSE]
    ELSE IF length = 0 THEN [cursor_pos |-> cur, output |-> out, panic |-> TRUE]
    ELSE IF (cur % length) + 1 > Len(ch)
         THEN [cursor_pos |-> cur, output |-> out, panic |-> TRUE]
    ELSE LET sample == ch[(cur % length) + 1]
             next == IF cur + 1 >= length THEN 0 ELSE cur + 1
         IN  output_loop(ch, length, next,
                         [out EXCEPT ![k] = process_sample(sample)], k + 1)

MaxOf(s) == CHOOSE m \in s : \A x \in s : x <= m
Peak(ch) == MaxOf({0} \cup {ch[i] : i \in 1..Len(ch)})

(* The input blocks: ramps 1, 2, .. of every length up to MaxBlock *)
Blocks == {[i \in 1..n |-> i] : n \in 0..MaxBlock}

----------------------------------------------------------------------------
(* History variables *)

(* session: "rec" from a successful start_recording while only process_input
   follows, "stopped" once stop_recording ends it, "none" after any other
   call; fed and blocks count the samples and the blocks fed since the start *)
SessionAfter(c, r, n) ==
    IF c = "start_recording" /\ r = "Ok"
    THEN [phase |-> "rec", fed |-> 0, blocks |-> 0]
    ELSE IF c = "process_input" /\ session.phase = "rec"
         THEN [session EXCEPT !.fed = @ + n, !.blocks = @ + 1]
    ELSE IF c = "stop_recording" /\ session.phase = "rec"
         THEN [session EXCEPT !.phase = "stopped"]
    ELSE [phase |-> "none", fed |-> 0, blocks |-> 0]

(* hist: "ops" while no undo or redo was called, log holding the (buffer,
   cursor) found by each destructive call so far; "undos" while only undo
   calls follow, undone counting those that succeeded; "other" after that,
   or once the log is full *)
HistAfter(c, r) ==
    IF hist.phase = "ops" THEN
        IF c \in Destructive /\ r = "Ok"
        THEN IF Len(hist.log) < MaxLog
             THEN [hist EXCEPT
                      !.log = Append(@, BufferHistory(buffer, cursor_pos))]
             ELSE [phase |-> "other", log |-> <<>>, undone |-> 0]
        ELSE IF c = "undo"
        THEN [hist EXCEPT !.phase = "undos",
                          !.undone = IF r = "Ok" THEN 1 ELSE 0]
        ELSE IF c = "redo" THEN [phase |-> "other", log |-> <<>>, undone |-> 0]
        ELSE hist
    ELSE IF hist.phase = "undos" /\ c = "undo"
    THEN [hist EXCEPT !.undone = IF r = "Ok" THEN @ + 1 ELSE @]
    ELSE [phase |-> "other", log |-> <<>>, undone |-> 0]

(* saved: "undone" right after a successful undo, pre holding the track as
   that undo found it; then "redone" if redo is the next call, "overwritten"
   if a destructive call is, and "refused" for a redo right after that one *)
SavedAfter(c, r) ==
    IF c = "undo" /\ r = "Ok" THEN [tag |-> "undone", pre |-> <<TrackRec>>]
    ELSE IF c = "redo" /\ saved.tag = "undone"
    THEN [saved EXCEPT !.tag = "redone"]
    ELSE IF c \in Destructive /\ r = "Ok" /\ saved.tag = "undone"
    THEN [tag |-> "overwritten", pre |-> <<>>]
    ELSE IF c = "redo" /\ saved.tag = "overwritten"
    THEN [tag |-> "refused", pre |-> <<>>]
    ELSE [tag |-> "none", pre |-> <<>>]

(* started: left once a call has found the track in a state other than Idle,
   starts the start_recording calls that returned Ok *)
StartedAfter(c, r) ==
    [left |-> started.left \/ state # "Idle",
     starts |-> IF c = "start_recording" /\ r = "Ok"
                THEN started.starts + 1
                ELSE started.starts]

Return(c, r, n) ==
    /\ call' = c
    /\ result' = r
    /\ IF c = "process_input" THEN TRUE ELSE last_input' = <<>>
    /\ UNCHANGED <<poolVars, clockVars, jackVars, bufVars, chainVars>>
    /\ session' = SessionAfter(c, r, n)
    /\ hist' = HistAfter(c, r)
    /\ saved' = SavedAfter(c, r)
    /\ started' = StartedAfter(c, r)

Alive == result # "Panic"

(* One call of a kind out of the run's budget; a negative budget is unlimited.
   Destructive calls spend "destr"; process_input and process_output spend
   "io" when the track is recording, overdubbing or playing a buffer, and
   nothing when the call leaves the track alone. *)
Spend(kind) ==
    /\ budget[kind] # 0
    /\ budget' = IF budget[kind] > 0 THEN [budget EXCEPT ![kind] = @ - 1]
                  ELSE budget

----------------------------------------------------------------------------
(* BufferPool and PooledBuffer (src/src/core/buffer.rs).  A storage is the
   Vec<Vec<f32>> behind one Arc: id names the allocation, chans holds the
   length and the capacity of each channel (the pool never looks at the
   samples themselves).  A PooledBuffer hands its storage back to the pool
   that made it. *)

ChannelCounts == {1, MaxChannels}
Capacities == {0, MaxCapacity}
Handles == DOMAIN handles

(* Vec::with_capacity(capacity) *)
Vec_with_capacity(capacity) == [len |-> 0, cap |-> capacity]

(* Vec::clone: the copy reserves room for the elements only *)
Vec_clone(v) == [len |-> v.len, cap |-> v.len]

(* vec![elem; n]: n - 1 clones of elem, then elem itself *)
vec_from_elem(elem, n) ==
    [c \in 1..n |-> IF c < n THEN Vec_clone(elem) ELSE elem]

(* Vec::extend_from_slice by n samples: the capacity grows as far as needed *)
extend_from_slice(v, n) ==
    [len |-> v.len + n, cap |-> IF v.cap >= v.len + n THEN v.cap ELSE v.len + n]

Storage(id, chans) == [id |-> id, chans |-> chans]

(* SegQueue: push at the back, pop at the front *)
queue_push(q, data) == Append(q, data)
queue_front(q) == Head(q)
queue_pop_Peek(q) == q
queue_pop(q) == Tail(q)

(* DashMap::entry(channels).or_insert_with(SegQueue::new) *)
or_insert(p, channels) ==
    IF channels \in DOMAIN p THEN p
    ELSE [k \in DOMAIN p \cup {channels} |->
             IF k = channels THEN <<>> ELSE p[k]]

(* return_buffer: self.pool.len() < self.max_buffers, pool.len() being the
   number of entries of the map *)
HasRoom(p, k) == Cardinality(DOMAIN p) < k

(* A handle that owns nothing *)
NoHandle == [pc |-> "free", data |-> <<>>]

(* No pool in use: the track's specifications leave these alone *)
PoolUnused ==
    /\ pool = <<>>
    /\ max_buffers = 0
    /\ handles = <<>>
    /\ next_id = 0
    /\ got = <<>>

----------------------------------------------------------------------------
(* MasterClock (src/src/sync/clock.rs) and the AudioEngine that owns one
   (src/src/core/engine.rs).  The BPM is an integer here and the f32
   expression (60.0 / bpm) * sample_rate the exact quotient 60 * sample_rate
   / bpm; its conversion to usize drops the fraction and takes a negative
   value to 0. *)

(* The sample rates and tempos tried: a negative tempo, the two of the
   specification's examples, one that does not divide 60 * sample_rate, and
   one with less than a sample to the beat *)
SampleRates == {44100}
BpmValues == {-120, 60, 120, 130, 3000000}
AdvanceSizes == {0, 1, 22050}
FrameCounts == {0, 128}

(* f32 as usize, of the quotient num / den with den > 0: toward zero, and 0
   for a negative value *)
as_usize(num, den) == IF num < 0 THEN 0 ELSE num \div den

(* MasterClock::samples_per_beat, for b # 0 (a tempo of 0 makes the quotient
   infinite and the result usize::MAX; it is not among the tempos tried) *)
samples_per_beat(b, rate) ==
    IF b > 0 THEN as_usize(60 * rate, b) ELSE as_usize(-(60 * rate), -b)

(* AtomicUsize::fetch_add: the new value *)
fetch_add_Store(counter, n) == n
fetch_add(counter, n) == counter + n

NoCall == [op |-> "new", arg |-> 0, ret |-> "Ok"]

(* No clock in use *)
ClockUnused ==
    /\ bpm = EngineBpm
    /\ sample_rate = 0
    /\ beat_counter = 0
    /\ clock_call = NoCall
    /\ advanced = [calls |-> 0, total |-> 0]

----------------------------------------------------------------------------
(* The parts a specification does not use *)

(* No JACK client *)
JackUnused ==
    /\ active = TRUE
    /\ callback = <<>>

(* No AudioBuffer of buffer.rs *)
BufUnused ==
    /\ abuf = <<>>
    /\ buf_call = <<>>

(* No EffectsChain *)
ChainUnused ==
    /\ chain = <<>>
    /\ chain_call = <<>>

----------------------------------------------------------------------------
(* Track::new *)

InitTrack ==
    /\ state = "Idle"
    /\ buffer = AudioBuffer_new(NumChannels)
    /\ cursor_pos = 0
    /\ loop_length = None
    /\ undo_stack = <<>>
    /\ redo_stack = <<>>
    /\ call = "new"
    /\ result = "Ok"
    /\ output = <<>>
    /\ last_input = <<>>
    /\ session = [phase |-> "none", fed |-> 0, blocks |-> 0]
    /\ hist = [phase |-> "ops", log |-> <<>>, undone |-> 0]
    /\ saved = [tag |-> "none", pre |-> <<>>]
    /\ started = [left |-> FALSE, starts |-> 0]

Init ==
    /\ InitTrack
    /\ PoolUnused
    /\ ClockUnused
    /\ JackUnused
    /\ BufUnused
    /\ ChainUnused
    /\ budget = [destr |-> MaxDestructive, io |-> MaxIO, len |-> MaxLen]

InitHist ==
    /\ InitTrack
    /\ PoolUnused
    /\ ClockUnused
    /\ JackUnused
    /\ BufUnused
    /\ ChainUnused
    /\ budget = [destr |-> -1, io |-> HistIO, len |-> HistLen]

InitCap ==
    /\ InitTrack
    /\ PoolUnused
    /\ ClockUnused
    /\ JackUnused
    /\ BufUnused
    /\ ChainUnused
    /\ budget = [destr |-> -1, io |-> CapIO, len |-> CapLen]

(* Track::start_recording *)
start_recording ==
    /\ Alive
    /\ IF CanStartRecording(state)
       THEN /\ Spend("destr")
            /\ LET h == save_to_history(undo_stack, buffer, cursor_pos)
               IN  /\ undo_stack' = h.undo_stack
                   /\ redo_stack' = h.redo_stack
            /\ buffer' = clear(buffer)
            /\ cursor_pos' = 0
            /\ state' = "Recording"
            /\ Return("start_recording", "Ok", 0)
            /\ output' = <<>>
            /\ UNCHANGED loop_length
       ELSE /\ Return("start_recording", "InvalidStateTransition", 0)
            /\ output' = <<>>
            /\ UNCHANGED <<trackVars, budget>>

(* Track::stop_recording *)
stop_recording ==
    /\ Alive
    /\ IF CanStopRecording(state)
       THEN /\ loop_length' = Some(cursor_pos)
            /\ state' = "Playing"
            /\ Return("stop_recording", "Ok", 0)
            /\ output' = <<>>
            /\ UNCHANGED <<buffer, cursor_pos, undo_stack, redo_stack,
                           budget>>
       ELSE /\ Return("stop_recording", "InvalidStateTransition", 0)
            /\ output' = <<>>
            /\ UNCHANGED <<trackVars, budget>>

(* Track::start_overdub *)
start_overdub ==
    /\ Alive
    /\ IF CanStartOverdub(state)
       THEN /\ Spend("destr")
            /\ LET h == save_to_history(undo_stack, buffer, cursor_pos)
               IN  /\ undo_stack' = h.undo_stack
                   /\ redo_stack' = h.redo_stack
            /\ state' = "Overdubbing"
            /\ Return("start_overdub", "Ok", 0)
            /\ output' = <<>>
            /\ UNCHANGED <<buffer, cursor_pos, loop_length>>
       ELSE /\ Return("start_overdub", "InvalidStateTransition", 0)
            /\ output' = <<>>
            /\ UNCHANGED <<trackVars, budget>>

(* Track::process_input *)
process_input ==
    /\ Alive
    /\ \E input \in Blocks :
        /\ IF state = "Overdubbing" THEN
               IF Len(input) > 0 /\ len(buffer) = 0
               THEN /\ Return("process_input", "Panic", Len(input))
                    /\ last_input' = input
                    /\ UNCHANGED <<buffer, cursor_pos, budget>>
               ELSE /\ Spend("io")
                    /\ cursor_pos + Len(input) <= MaxCursor
                    /\ LET mixed == mix_loop(buffer[1], cursor_pos, input, 1)
                       IN  /\ Peak(mixed) <= MaxAmp
                           /\ buffer' = [buffer EXCEPT ![1] = mixed]
                    /\ cursor_pos' = cursor_pos + Len(input)
                    /\ last_input' = input
                    /\ Return("process_input", "Ok", Len(input))
           ELSE IF state = "Recording" THEN
               /\ Spend("io")
               /\ len(buffer) + Len(input) <= budget.len
               /\ buffer' = append(buffer, input)
               /\ cursor_pos' = cursor_pos + Len(input)
               /\ last_input' = input
               /\ Return("process_input", "Ok", Len(input))
           ELSE
               /\ Return("process_input", "Ok", Len(input))
               /\ last_input' = <<>>
               /\ UNCHANGED <<buffer, cursor_pos, budget>>
    /\ output' = <<>>
    /\ UNCHANGED <<state, loop_length, undo_stack, redo_stack>>

(* Track::process_output *)
process_output ==
    /\ Alive
    /\ \E frames \in 0..MaxBlock :
        LET slice == [k \in 1..frames |-> 0] IN  \* the slice as handed in
        IF state \in {"Playing", "Overdubbing"} /\ ~is_empty(buffer)
        THEN LET length == unwrap_or(loop_length, len(buffer))
                 r == output_loop(buffer[1], length, cursor_pos, slice, 1)
             IN  /\ Spend("io")
                 /\ cursor_pos' = r.cursor_pos
                 /\ output' = r.output
                 /\ Return("process_output",
                           IF r.panic THEN "Panic" ELSE "Ok", frames)
        ELSE /\ output' = slice
             /\ Return("process_output", "Ok", frames)
             /\ UNCHANGED <<cursor_pos, budget>>
    /\ UNCHANGED <<state, buffer, loop_length, undo_stack, redo_stack>>

(* Track::apply_effects *)
apply_effects ==
    /\ Alive
    /\ Spend("destr")
    /\ LET h == save_to_history(undo_stack, buffer, cursor_pos)
       IN  /\ undo_stack' = h.undo_stack
           /\ redo_stack' = h.redo_stack
    /\ buffer' = process_buffer(buffer)
    /\ Return("apply_effects", "Ok", 0)
    /\ output' = <<>>
    /\ UNCHANGED <<state, cursor_pos, loop_length>>

(* Track::quantize *)
quantize ==
    /\ Alive
    /\ Spend("destr")
    /\ LET h == save_to_history(undo_stack, buffer, cursor_pos)
       IN  /\ undo_stack' = h.undo_stack
           /\ redo_stack' = h.redo_stack
    /\ buffer' = quantizer_quantize(buffer)
    /\ Return("quantize", "Ok", 0)
    /\ output' = <<>>
    /\ UNCHANGED <<state, cursor_pos, loop_length>>

(* Track::undo *)
undo ==
    /\ Alive
    /\ IF Len(undo_stack) > 0
       THEN LET history == back(undo_stack)
            IN  /\ undo_stack' = pop_back(undo_stack)
                /\ redo_stack' =
                       push_back(redo_stack, BufferHistory(buffer, cursor_pos))
                /\ buffer' = history.buffer
                /\ cursor_pos' = history.cursor_pos
                /\ Return("undo", "Ok", 0)
                /\ output' = <<>>
                /\ UNCHANGED <<state, loop_length, budget>>
       ELSE /\ Return("undo", "NothingToUndo", 0)
            /\ output' = <<>>
            /\ UNCHANGED <<trackVars, budget>>

(* Track::redo *)
redo ==
    /\ Alive
    /\ IF Len(redo_stack) > 0
       THEN LET history == back(redo_stack)
            IN  /\ redo_stack' = pop_back(redo_stack)
                /\ undo_stack' =
                       push_back(undo_stack, BufferHistory(buffer, cursor_pos))
                /\ buffer' = history.buffer
                /\ cursor_pos' = history.cursor_pos
                /\ Return("redo", "Ok", 0)
                /\ output' = <<>>
                /\ UNCHANGED <<state, loop_length, budget>>
       ELSE /\ Return("redo", "NothingToRedo", 0)
            /\ output' = <<>>
            /\ UNCHANGED <<trackVars, budget>>

Next ==
    \/ start_recording
    \/ stop_recording
    \/ start_overdub
    \/ process_input
    \/ process_output
    \/ apply_effects
    \/ quantize
    \/ undo
    \/ redo

Spec == Init /\ [][Next]_vars

SpecHist == InitHist /\ [][Next]_vars

SpecCap == InitCap /\ [][Next]_vars

----------------------------------------------------------------------------
(* The pool on its own: handles are checked out, written to and dropped by
   any number of threads, one step at a time; the track stands still. *)

callVars == <<call, result, output, last_input, budget, session, hist, saved,
              started>>

(* BufferPool::new(max_buffers), and n handles that own nothing yet *)
PoolNew(n) ==
    /\ InitTrack
    /\ ClockUnused
    /\ JackUnused
    /\ BufUnused
    /\ ChainUnused
    /\ budget = [destr |-> 0, io |-> 0, len |-> 0]
    /\ pool = <<>>
    /\ max_buffers \in 0..MaxK
    /\ handles = [h \in 1..n |-> NoHandle]
    /\ next_id = 0
    /\ got = <<>>

InitPool == PoolNew(MaxHandles)

InitRace == PoolNew(RaceHandles)

(* BufferPool::get, to the handle h, the first one free.  The guard of the
   map entry is held from the lookup to the pop, so the call is one step. *)
get(h, channels, capacity) ==
    /\ handles[h].pc = "free"
    /\ \A x \in 1..(h - 1) : handles[x].pc # "free"
    /\ LET p == or_insert(pool, channels)
       IN  IF p[channels] # <<>>
           THEN LET data == queue_front(p[channels])
                IN  /\ pool' = [p EXCEPT ![channels] = queue_pop(@)]
                    /\ handles' = [handles EXCEPT
                                      ![h] = [pc |-> "held", data |-> <<data>>]]
                    /\ got' = [channels |-> channels, capacity |-> capacity,
                               data |-> data, reused |-> TRUE]
                    /\ UNCHANGED next_id
           ELSE LET data == Storage(next_id + 1,
                                    vec_from_elem(Vec_with_capacity(capacity),
                                                  channels))
                IN  /\ next_id < Len(handles)  \* allocations of a run
                    /\ next_id' = next_id + 1
                    /\ pool' = p
                    /\ handles' = [handles EXCEPT
                                      ![h] = [pc |-> "held", data |-> <<data>>]]
                    /\ got' = [channels |-> channels, capacity |-> capacity,
                               data |-> data, reused |-> FALSE]
    /\ UNCHANGED <<max_buffers, trackVars, callVars,
                   clockVars, jackVars, bufVars, chainVars>>

(* The holder of h writes one sample to channel c through DerefMut *)
write(h, c) ==
    /\ handles[h].pc = "held"
    /\ handles[h].data[1].chans[c].len < MaxWrite
    /\ handles' = [handles EXCEPT
                      ![h].data[1].chans[c] = extend_from_slice(@, 1)]
    /\ UNCHANGED <<pool, max_buffers, next_id, got, trackVars, callVars,
                   clockVars, jackVars, bufVars, chainVars>>

(* Drop for PooledBuffer: the storage is taken out of the handle, and
   return_buffer compares the size of the map with max_buffers *)
drop(h) ==
    /\ handles[h].pc = "held"
    /\ handles' = [handles EXCEPT
                      ![h] = IF HasRoom(pool, max_buffers)
                             THEN [@ EXCEPT !.pc = "returning"]
                             ELSE NoHandle]
    /\ UNCHANGED <<pool, max_buffers, next_id, got, trackVars, callVars,
                   clockVars, jackVars, bufVars, chainVars>>

(* return_buffer, second half: the queue of data.len() channels is looked up
   and the storage pushed onto it *)
return_buffer(h) ==
    /\ handles[h].pc = "returning"
    /\ LET data == handles[h].data[1]
           channels == Len(data.chans)
       IN  pool' = IF channels \in DOMAIN pool
                   THEN [pool EXCEPT ![channels] = queue_push(@, data)]
                   ELSE pool
    /\ handles' = [handles EXCEPT ![h] = NoHandle]
    /\ UNCHANGED <<max_buffers, next_id, got, trackVars, callVars,
                   clockVars, jackVars, bufVars, chainVars>>

NextPool ==
    \/ \E h \in Handles, channels \in ChannelCounts, capacity \in Capacities :
           get(h, channels, capacity)
    \/ \E h \in Handles : write(h, 1)
    \/ \E h \in Handles : drop(h)
    \/ \E h \in Handles : return_buffer(h)

SpecPool == InitPool /\ [][NextPool]_vars

SpecRace == InitRace /\ [][NextPool]_vars

----------------------------------------------------------------------------
(* The engine's clock on its own: any thread calls advance, set_bpm,
   samples_per_beat and get_position on the clock, and the audio callback
   calls AudioEngine::process; each is one step (an atomic add, or reads and
   writes under the lock of the BPM). *)

(* AudioEngine::new(sample_rate, max_tracks) *)
InitClock ==
    /\ InitTrack
    /\ PoolUnused
    /\ JackUnused
    /\ BufUnused
    /\ ChainUnused
    /\ budget = [destr |-> 0, io |-> 0, len |-> 0]
    /\ bpm = EngineBpm
    /\ sample_rate \in SampleRates
    /\ beat_counter = 0
    /\ clock_call = NoCall
    /\ advanced = [calls |-> 0, total |-> 0]

ClockFrame ==
    UNCHANGED <<trackVars, callVars, poolVars, sample_rate, jackVars, bufVars,
                chainVars>>

(* MasterClock::advance *)
advance(samples) ==
    /\ advanced.calls < MaxAdvances
    /\ beat_counter' = fetch_add(beat_counter, samples)
    /\ clock_call' = [op |-> "advance", arg |-> samples, ret |-> "Ok"]
    /\ advanced' = [calls |-> advanced.calls + 1,
                    total |-> advanced.total + samples]
    /\ UNCHANGED bpm
    /\ ClockFrame

(* MasterClock::set_bpm *)
set_bpm(new_bpm) ==
    /\ bpm' = new_bpm
    /\ clock_call' = [op |-> "set_bpm", arg |-> new_bpm, ret |-> "Ok"]
    /\ UNCHANGED <<beat_counter, advanced>>
    /\ ClockFrame

(* MasterClock::samples_per_beat, called from outside *)
call_samples_per_beat ==
    /\ clock_call' = [op |-> "samples_per_beat", arg |-> 0,
                      ret |-> samples_per_beat(bpm, sample_rate)]
    /\ UNCHANGED <<bpm, beat_counter, advanced>>
    /\ ClockFrame

(* MasterClock::get_position: the progress within the beat is the f32
   quotient of num by den; a division by zero panics *)
get_position ==
    /\ LET spb == samples_per_beat(bpm, sample_rate)
           total_samples == beat_counter
       IN  clock_call' =
               [op |-> "get_position", arg |-> 0,
                ret |-> IF spb = 0
                        THEN [panic |-> TRUE, current_beat |-> 0,
                              beat_progress |-> [num |-> 0, den |-> 0]]
                        ELSE [panic |-> FALSE,
                              current_beat |-> total_samples \div spb,
                              beat_progress |->
                                  [num |-> total_samples % spb, den |-> spb]]]
    /\ UNCHANGED <<bpm, beat_counter, advanced>>
    /\ ClockFrame

(* A block of frames samples: the input the driver hands in, a ramp, and the
   output block as the driver hands it in *)
InputBlock(frames) == [k \in 1..frames |-> k]
Silence(frames) == [k \in 1..frames |-> 0]

(* AudioEngine::process: what it returns and what it leaves in the output
   block.  The body is empty. *)
AudioEngine_process(input, out) == [ret |-> "Ok", out |-> out]

(* AudioEngine::process with blocks of frames frames *)
engine_process(frames) ==
    /\ LET r == AudioEngine_process(InputBlock(frames), Silence(frames))
       IN  clock_call' = [op |-> "process", arg |-> frames, ret |-> r.ret,
                          out |-> r.out]
    /\ UNCHANGED <<bpm, beat_counter, advanced>>
    /\ ClockFrame

(* ProcessHandler::process for AudioEngine *)
handler_process ==
    /\ LET r == AudioEngine_process(<<>>, <<>>)
       IN  clock_call' = [op |-> "handler", arg |-> 0,
                          ret |-> IF r.ret = "Ok" THEN "Continue" ELSE "Quit",
                          out |-> r.out]
    /\ UNCHANGED <<bpm, beat_counter, advanced>>
    /\ ClockFrame

NextClock ==
    \/ \E samples \in AdvanceSizes : advance(samples)
    \/ \E new_bpm \in BpmValues : set_bpm(new_bpm)
    \/ call_samples_per_beat
    \/ get_position
    \/ \E frames \in FrameCounts : engine_process(frames)

SpecClock == InitClock /\ [][NextClock]_vars

----------------------------------------------------------------------------
(* The engine with one track: the calls of the track, and the audio callback
   calling AudioEngine::process or the engine's ProcessHandler::process *)

InitEngine ==
    /\ InitTrack
    /\ PoolUnused
    /\ JackUnused
    /\ BufUnused
    /\ ChainUnused
    /\ budget = [destr |-> MaxDestructive, io |-> MaxIO, len |-> MaxLen]
    /\ bpm = EngineBpm
    /\ sample_rate \in SampleRates
    /\ beat_counter = 0
    /\ clock_call = NoCall
    /\ advanced = [calls |-> 0, total |-> 0]

NextEngine ==
    \/ Next
    \/ \E frames \in 0..MaxBlock : engine_process(frames)
    \/ handler_process

SpecEngine == InitEngine /\ [][NextEngine]_vars

----------------------------------------------------------------------------
(* The JACK client: the audio thread runs process_callback, the owner of the
   JackAudio calls is_active and shutdown.  A callback takes two steps, the
   load of the flag and the rest, so that a shutdown can fall between them.
   callback.down remembers that false was stored, callback.log what every
   finished callback returned, whether it called the engine, and whether
   false had been stored when it started and when it ended. *)

(* JackAudio::new: active = Arc::new(AtomicBool::new(true)) *)
InitJack ==
    /\ InitTrack
    /\ PoolUnused
    /\ ClockUnused
    /\ BufUnused
    /\ ChainUnused
    /\ budget = [destr |-> 0, io |-> 0, len |-> 0]
    /\ active = TRUE
    /\ callback = [pc |-> "idle", started_down |-> FALSE, down |-> FALSE,
                   seen |-> "none", seen_down |-> FALSE, log |-> <<>>]

JackFrame == UNCHANGED <<trackVars, callVars, poolVars, clockVars, bufVars,
                         chainVars>>

(* One finished callback *)
Finished(ret, called, ended_down) ==
    [ret |-> ret, called |-> called,
     started_down |-> callback.started_down, ended_down |-> ended_down]

(* process_callback: the load of the flag, and the early return *)
callback_load_Ignoring ==
    /\ callback.pc = "idle"
    /\ Len(callback.log) < MaxCallbacks
    /\ callback' = [callback EXCEPT !.pc = "running",
                                    !.started_down = callback.down]
    /\ UNCHANGED active
    /\ JackFrame
callback_load ==
    /\ callback.pc = "idle"
    /\ Len(callback.log) < MaxCallbacks
    /\ IF ~active
       THEN callback' =
                [callback EXCEPT
                    !.started_down = callback.down,
                    !.log = Append(@, [ret |-> "Quit", called |-> FALSE,
                                       started_down |-> callback.down,
                                       ended_down |-> callback.down])]
       ELSE callback' = [callback EXCEPT !.pc = "running",
                                        !.started_down = callback.down]
    /\ UNCHANGED active
    /\ JackFrame

(* process_callback: the buffers of the ports, engine.process and the match
   on its result *)
callback_process ==
    /\ callback.pc = "running"
    /\ LET r == AudioEngine_process(<<>>, <<>>)
       IN  IF r.ret = "Ok"
           THEN /\ callback' =
                       [callback EXCEPT
                           !.pc = "idle",
                           !.log = Append(@, Finished("Continue", TRUE,
                                                      callback.down))]
                /\ UNCHANGED active
           ELSE /\ active' = FALSE
                /\ callback' =
                       [callback EXCEPT
                           !.pc = "idle", !.down = TRUE,
                           !.log = Append(@, Finished("Quit", TRUE, TRUE))]
    /\ JackFrame

(* JackAudio::is_active *)
is_active ==
    /\ callback' = [callback EXCEPT
                       !.seen = IF active THEN "true" ELSE "false",
                       !.seen_down = callback.down]
    /\ UNCHANGED active
    /\ JackFrame

(* JackAudio::shutdown, also what Drop calls *)
shutdown ==
    /\ active' = FALSE
    /\ callback' = [callback EXCEPT !.down = TRUE]
    /\ JackFrame

NextJack ==
    \/ callback_load
    \/ callback_process
    \/ is_active
    \/ shutdown

SpecJack == InitJack /\ [][NextJack]_vars

----------------------------------------------------------------------------
(* AudioBuffer of buffer.rs.  A sample is the integer samples[c][i] divided
   by denom, which is 1 until to_mono divides by the channel count; gains
   are integers.  append_mono is read as extending every channel by its
   parameter (the local of line 106 shadows it), to_mono as replacing the
   channels by the one it computed. *)

BufRates == {44100, 48000}
BufChannelCounts == {1, 2}
Gains == {0, 2}
Slices == {[i \in 1..n |-> i] : n \in 0..MaxSlice}
ResizeLens == {1, MaxSlice + 1}

Zeros(n) == [i \in 1..n |-> 0]

(* AudioBuffer::new *)
buf_new(rate, channels) ==
    [samples |-> [c \in 1..channels |-> <<>>], sample_rate |-> rate,
     channels |-> channels, denom |-> 1]

(* AudioBuffer::len *)
buf_len(b) == Len(b.samples[1])

(* AudioBuffer::append *)
buf_append_Unchecked(b, slices) ==
    [ret |-> "Ok",
     buf |-> [b EXCEPT !.samples =
                 [c \in 1..Len(b.samples) |->
                     IF c <= Len(slices)
                     THEN b.samples[c] \o
                          [i \in 1..Len(slices[c]) |-> slices[c][i] * b.denom]
                     ELSE b.samples[c]]]]
buf_append(b, slices) ==
    IF Len(slices) # b.channels
    THEN [ret |-> "ChannelMismatch", buf |-> b]
    ELSE [ret |-> "Ok",
          buf |-> [b EXCEPT !.samples =
                      [c \in 1..Len(b.samples) |->
                          b.samples[c] \o
                          [i \in 1..Len(slices[c]) |->
                              slices[c][i] * b.denom]]]]

(* AudioBuffer::append_mono *)
buf_append_mono(b, slice) ==
    [b EXCEPT !.samples =
        [c \in 1..Len(b.samples) |->
            b.samples[c] \o [i \in 1..Len(slice) |-> slice[i] * b.denom]]]

(* AudioBuffer::clear *)
buf_clear(b) ==
    [b EXCEPT !.samples = [c \in 1..Len(b.samples) |-> <<>>]]

(* Vec::resize(new_len, 0.0) *)
Vec_resize(v, new_len) ==
    IF new_len <= Len(v)
    THEN SubSeq(v, 1, new_len)
    ELSE v \o Zeros(new_len - Len(v))

(* AudioBuffer::resize *)
buf_resize(b, new_len) ==
    [b EXCEPT !.samples =
        [c \in 1..Len(b.samples) |-> Vec_resize(b.samples[c], new_len)]]

(* AudioBuffer::mix; other has denom 1 *)
buf_mix(b, other, gain) ==
    IF other.channels # b.channels \/ other.sample_rate # b.sample_rate
    THEN [ret |-> "BufferMismatch", buf |-> b]
    ELSE LET target_len == Max(buf_len(b), buf_len(other))
             dst == buf_resize(b, target_len).samples
             src == other.samples
         IN  [ret |-> "Ok",
              buf |-> [b EXCEPT !.samples =
                          [c \in 1..Len(dst) |->
                              [i \in 1..Len(dst[c]) |->
                                  IF c <= Len(src) /\ i <= Len(src[c])
                                  THEN dst[c][i] + src[c][i] * gain * b.denom
                                  ELSE dst[c][i]]]]]

(* AudioBuffer::apply_gain *)
buf_apply_gain(b, gain) ==
    [b EXCEPT !.samples =
        [c \in 1..Len(b.samples) |->
            [i \in 1..Len(b.samples[c]) |-> b.samples[c][i] * gain]]]

(* samples.iter().map(|channel| channel[i]).sum() over the first c channels *)
RECURSIVE channel_sum(_, _, _)
channel_sum(samples, i, c) ==
    IF c = 0 THEN 0 ELSE channel_sum(samples, i, c - 1) + samples[c][i]

(* AudioBuffer::to_mono; channel[i] panics on a channel shorter than the
   first *)
buf_to_mono(b) ==
    IF b.channels = 1
    THEN [ret |-> "Ok", buf |-> b]
    ELSE IF \E c \in 1..Len(b.samples) : Len(b.samples[c]) < buf_len(b)
    THEN [ret |-> "Panic", buf |-> b]
    ELSE [ret |-> "Ok",
          buf |-> [samples |-> <<[i \in 1..buf_len(b) |->
                                     channel_sum(b.samples, i,
                                                 Len(b.samples))]>>,
                   sample_rate |-> b.sample_rate,
                   channels |-> 1,
                   denom |-> b.denom * b.channels]]

(* The buffers handed to mix: new, then one append *)
Others ==
    UNION {{buf_append(buf_new(r, n), sl).buf : sl \in [1..n -> Slices]} :
              r \in BufRates, n \in BufChannelCounts}

(* The slices handed to append: one per channel, for any channel count *)
SliceLists == UNION {[1..n -> Slices] : n \in BufChannelCounts}

NoBuffer == [samples |-> <<>>, sample_rate |-> 0, channels |-> 0, denom |-> 1]

(* AudioBuffer::new(44100, channels) *)
InitBuf ==
    /\ InitTrack
    /\ PoolUnused
    /\ ClockUnused
    /\ JackUnused
    /\ ChainUnused
    /\ budget = [destr |-> 0, io |-> 0, len |-> 0]
    /\ \E n \in BufChannelCounts : abuf = buf_new(44100, n)
    /\ buf_call = [op |-> "new", ret |-> "Ok", pre |-> NoBuffer,
                   slices |-> <<>>, other |-> NoBuffer, gain |-> 0,
                   calls |-> 0]

(* The end of a call on the buffer: the buffer it leaves, and the record of
   the call with the buffer it found *)
BufReturn(op, ret, b, slices, other, gain) ==
    /\ buf_call.calls < MaxBufCalls
    /\ abuf' = b
    /\ buf_call' = [op |-> op, ret |-> ret, pre |-> abuf, slices |-> slices,
                    other |-> other, gain |-> gain,
                    calls |-> buf_call.calls + 1]
    /\ UNCHANGED <<trackVars, callVars, poolVars, clockVars, jackVars,
                   chainVars>>

call_append(slices) ==
    LET r == buf_append(abuf, slices)
    IN  BufReturn("append", r.ret, r.buf, slices, NoBuffer, 0)

call_append_mono(slice) ==
    BufReturn("append_mono", "Ok", buf_append_mono(abuf, slice), <<slice>>,
              NoBuffer, 0)

call_clear == BufReturn("clear", "Ok", buf_clear(abuf), <<>>, NoBuffer, 0)

call_mix(other, gain) ==
    LET r == buf_mix(abuf, other, gain)
    IN  BufReturn("mix", r.ret, r.buf, <<>>, other, gain)

call_resize(new_len) ==
    BufReturn("resize", "Ok", buf_resize(abuf, new_len), <<>>, NoBuffer,
              new_len)

call_apply_gain(gain) ==
    BufReturn("apply_gain", "Ok", buf_apply_gain(abuf, gain), <<>>, NoBuffer,
              gain)

call_to_mono ==
    LET r == buf_to_mono(abuf)
    IN  BufReturn("to_mono", r.ret, r.buf, <<>>, NoBuffer, 0)

NextBuf ==
    \/ \E slices \in SliceLists : call_append(slices)
    \/ \E slice \in Slices : call_append_mono(slice)
    \/ call_clear
    \/ \E other \in Others, gain \in Gains : call_mix(other, gain)
    \/ \E new_len \in ResizeLens : call_resize(new_len)
    \/ \E gain \in Gains : call_apply_gain(gain)
    \/ call_to_mono

SpecBuf == InitBuf /\ [][NextBuf]_vars

----------------------------------------------------------------------------
(* EffectsChain.  An effect is any implementation of the trait AudioEffect:
   here one that adds 1 to every sample, one that doubles every sample, and
   two that fail, each with its own error, and write nothing.  runs counts
   the calls of the effect's process. *)

EffectKinds == {"add", "double", "fail_a", "fail_b"}
ChainBuffers == {<<1>>, <<1, 2>>}

(* AudioEffect::process of one effect: its result and the buffer it leaves *)
effect_process(e, buf) ==
    CASE e.kind = "add" ->
             [ret |-> "Ok", buf |-> [i \in 1..Len(buf) |-> buf[i] + 1]]
      [] e.kind = "double" ->
             [ret |-> "Ok", buf |-> [i \in 1..Len(buf) |-> buf[i] * 2]]
      [] e.kind = "fail_a" -> [ret |-> "EffectError(a)", buf |-> buf]
      [] OTHER -> [ret |-> "EffectError(b)", buf |-> buf]

(* The effect after one more call of its process *)
Ran(e) == [e EXCEPT !.runs = @ + 1]

(* for effect in &mut self.effects { effect.process(buffer)?; } from the
   effect k on *)
RECURSIVE chain_loop_NoReturn(_, _, _)
chain_loop_NoReturn(effects, buf, k) ==
    IF k > Len(effects)
    THEN [ret |-> "Ok", buf |-> buf, effects |-> effects]
    ELSE LET r == effect_process(effects[k], buf)
             rest == chain_loop_NoReturn([effects EXCEPT ![k] = Ran(@)],
                                         r.buf, k + 1)
         IN  IF r.ret # "Ok" THEN [rest EXCEPT !.ret = r.ret] ELSE rest
RECURSIVE chain_loop(_, _, _)
chain_loop(effects, buf, k) ==
    IF k > Len(effects)
    THEN [ret |-> "Ok", buf |-> buf, effects |-> effects]
    ELSE LET r == effect_process(effects[k], buf)
             ran == [effects EXCEPT ![k] = Ran(@)]
         IN  IF r.ret # "Ok"
             THEN [ret |-> r.ret, buf |-> r.buf, effects |-> ran]
             ELSE chain_loop(ran, r.buf, k + 1)

(* EffectsChain::process *)
chain_process(ch, buf) ==
    IF ~ch.enabled
    THEN [ret |-> "Ok", buf |-> buf, effects |-> ch.effects]
    ELSE chain_loop(ch.effects, buf, 1)

(* A chain of up to MaxEffects effects, enabled or not (the fields are
   public; the repository has no constructor) *)
InitChain ==
    /\ InitTrack
    /\ PoolUnused
    /\ ClockUnused
    /\ JackUnused
    /\ BufUnused
    /\ budget = [destr |-> 0, io |-> 0, len |-> 0]
    /\ \E n \in 0..MaxEffects, enabled \in BOOLEAN :
          \E kinds \in [1..n -> EffectKinds] :
             chain = [effects |-> [k \in 1..n |->
                                      [kind |-> kinds[k], runs |-> 0]],
                      enabled |-> enabled]
    /\ chain_call = [op |-> "new", ret |-> "Ok", pre |-> <<>>, buf |-> <<>>,
                     before |-> <<>>, calls |-> 0]

ChainFrame == UNCHANGED <<trackVars, callVars, poolVars, clockVars, jackVars,
                          bufVars>>

(* EffectsChain::process on a buffer *)
process(buf) ==
    /\ chain_call.calls < MaxProcess
    /\ LET r == chain_process(chain, buf)
       IN  /\ chain' = [chain EXCEPT !.effects = r.effects]
           /\ chain_call' = [op |-> "process", ret |-> r.ret, pre |-> buf,
                             buf |-> r.buf, before |-> chain.effects,
                             calls |-> chain_call.calls + 1]
    /\ ChainFrame

(* chain.enabled = enabled *)
set_enabled(enabled) ==
    /\ chain.enabled # enabled
    /\ chain' = [chain EXCEPT !.enabled = enabled]
    /\ chain_call' = [chain_call EXCEPT !.op = "set_enabled"]
    /\ ChainFrame

NextChain ==
    \/ \E buf \in ChainBuffers : process(buf)
    \/ \E enabled \in BOOLEAN : set_enabled(enabled)

SpecChain == InitChain /\ [][NextChain]_vars

----------------------------------------------------------------------------
(* The claims *)

Transitions == {"start_recording", "stop_recording", "start_overdub"}

(* The transition table of the specification, section 4.3 *)
InTable(s, event) ==
    \/ event = "start_recording" /\ s \in {"Idle", "Stopped"}
    \/ event = "stop_recording" /\ s \in {"Recording", "Overdubbing"}
    \/ event = "start_overdub" /\ s = "Playing"

(* C1: a transition call whose (state, event) pair is not in the transition
   table fails with InvalidStateTransition and leaves state, buffer, cursor,
   loop_length, undo stack and redo stack unchanged. *)
C1_InvalidTransitionRejected ==
    [][(call' \in Transitions /\ ~InTable(state, call'))
          => (result' = "InvalidStateTransition" /\ UNCHANGED trackVars)]_vars

(* A second start_recording, while Recording with samples in the buffer, was
   rejected. *)
C1_Witness ==
    /\ call = "start_recording"
    /\ result = "InvalidStateTransition"
    /\ state = "Recording"
    /\ len(buffer) > 0

(* C2: start_recording in Idle or Stopped succeeds and in that one step
   pushes the (buffer, cursor) it found onto the undo stack, empties the
   buffer, sets the cursor to 0 and the state to Recording. *)
C2_StartRecordingEffect ==
    [][(call' = "start_recording" /\ state \in {"Idle", "Stopped"})
          => /\ result' = "Ok"
             /\ Len(undo_stack') >= 1
             /\ undo_stack'[Len(undo_stack')] =
                    BufferHistory(buffer, cursor_pos)
             /\ (Len(undo_stack) < 32
                    => undo_stack' = Append(undo_stack,
                                        BufferHistory(buffer, cursor_pos)))
             /\ \A c \in 1..Len(buffer') : buffer'[c] = <<>>
             /\ Len(buffer') = Len(buffer)
             /\ cursor_pos' = 0
             /\ state' = "Recording"]_vars

(* start_recording succeeded on a track whose undo stack already held an
   entry. *)
C2_Witness ==
    /\ call = "start_recording"
    /\ result = "Ok"
    /\ state = "Recording"
    /\ Len(undo_stack) >= 2

(* C3: from start_recording through k process_input calls totalling n samples
   to stop_recording, with no other call in between, the cursor and the
   buffer length equal the samples fed so far after each process_input, and
   after stop_recording the state is Playing and loop_length is n. *)
C3_RecordingLength ==
    /\ session.phase = "rec"
          => /\ state = "Recording"
             /\ cursor_pos = session.fed
             /\ len(buffer) = session.fed
    /\ session.phase = "stopped"
          => /\ state = "Playing"
             /\ loop_length = Some(session.fed)

(* Two blocks of one sample each were recorded and the recording stopped. *)
C3_Witness ==
    /\ session.phase = "stopped"
    /\ session.blocks = 2
    /\ session.fed = 2
    /\ call = "stop_recording"

(* C4: a track in Overdubbing that receives stop_recording moves to Playing
   with its loop_length unchanged. *)
C4_StopOverdub ==
    [][(call' = "stop_recording" /\ state = "Overdubbing")
          => (state' = "Playing" /\ loop_length' = loop_length)]_vars

EffectiveLength == unwrap_or(loop_length, len(buffer))

(* C5 as stated: in every reachable state the cursor is strictly less than
   max(1, L), L being loop_length if set and the buffer length otherwise. *)
C5_CursorAlwaysBelowLength == cursor_pos < Max(1, EffectiveLength)

(* C5 as amended: when process_output returns after writing at least one
   frame (the track in Playing or Overdubbing, its buffer not empty), the
   cursor is strictly less than max(1, L). *)
C5_CursorBelowLengthAfterOutput ==
    (/\ call = "process_output"
     /\ result = "Ok"
     /\ state \in {"Playing", "Overdubbing"}
     /\ ~is_empty(buffer)
     /\ Len(output) >= 1)
        => cursor_pos < Max(1, EffectiveLength)

(* process_output wrote a frame of a two-sample loop and wrapped the cursor
   from the end of the recording to 0. *)
C5_Witness ==
    /\ call = "process_output"
    /\ result = "Ok"
    /\ state = "Playing"
    /\ loop_length = Some(2)
    /\ Len(output) >= 1
    /\ cursor_pos = 0

(* C6: undo on an empty undo stack fails with NothingToUndo, redo on an empty
   redo stack with NothingToRedo, both leaving buffer, cursor and both stacks
   unchanged; otherwise undo pushes the current (buffer, cursor) onto the redo
   stack and installs the most recently pushed undo entry, and redo mirrors
   it. *)
C6_UndoRedoEffect ==
    [][/\ call' = "undo" =>
            IF undo_stack = <<>>
            THEN /\ result' = "NothingToUndo"
                 /\ UNCHANGED <<buffer, cursor_pos, undo_stack, redo_stack>>
            ELSE /\ result' = "Ok"
                 /\ redo_stack' =
                        Append(redo_stack, BufferHistory(buffer, cursor_pos))
                 /\ undo_stack' = SubSeq(undo_stack, 1, Len(undo_stack) - 1)
                 /\ buffer' = undo_stack[Len(undo_stack)].buffer
                 /\ cursor_pos' = undo_stack[Len(undo_stack)].cursor_pos
       /\ call' = "redo" =>
            IF redo_stack = <<>>
            THEN /\ result' = "NothingToRedo"
                 /\ UNCHANGED <<buffer, cursor_pos, undo_stack, redo_stack>>
            ELSE /\ result' = "Ok"
                 /\ undo_stack' =
                        Append(undo_stack, BufferHistory(buffer, cursor_pos))
                 /\ redo_stack' = SubSeq(redo_stack, 1, Len(redo_stack) - 1)
                 /\ buffer' = redo_stack[Len(redo_stack)].buffer
                 /\ cursor_pos' = redo_stack[Len(redo_stack)].cursor_pos]_vars

(* undo succeeded with an entry left under the one it installed, and swapped
   a buffer for a different one. *)
C6_Witness ==
    /\ call = "undo"
    /\ result = "Ok"
    /\ Len(undo_stack) >= 1
    /\ Len(redo_stack) >= 1
    /\ back(redo_stack).buffer # buffer
    /\ back(undo_stack) # BufferHistory(buffer, cursor_pos)

(* C7: a successful undo immediately followed by redo restores the track as
   it was before the undo: buffer, cursor, loop_length, state, undo stack and
   redo stack. *)
C7_RedoAfterUndoRestores ==
    saved.tag = "redone" => (result = "Ok" /\ TrackRec = saved.pre[1])

(* redo followed an undo and swapped a different buffer back in, on a track
   with entries left on both stacks. *)
C7_Witness ==
    /\ saved.tag = "redone"
    /\ call = "redo"
    /\ Len(undo_stack) >= 1
    /\ Len(redo_stack) >= 1
    /\ back(undo_stack).buffer # buffer

(* C8: after N <= 32 destructive calls N consecutive undo calls all succeed,
   the k-th restoring the buffer and cursor found by the k-th most recent
   destructive call; after 33 destructive calls only 32 undo calls succeed,
   the 33rd fails with NothingToUndo, and what the oldest call found is never
   restored. *)
C8_UndoRestoresSnapshots ==
    LET N == Len(hist.log)
        avail == Min(N, 32)
    IN  /\ hist.phase = "ops"
              => undo_stack = SubSeq(hist.log, N - avail + 1, N)
        /\ hist.phase = "undos"
              => /\ hist.undone <= avail
                 /\ undo_stack =
                        SubSeq(hist.log, N - avail + 1, N - hist.undone)
                 /\ (result = "Ok" \/ hist.undone >= 1)
                        => BufferHistory(buffer, cursor_pos) =
                               hist.log[N - hist.undone + 1]
                 /\ result = "NothingToUndo" => hist.undone = avail
                 /\ result = "Ok" => hist.undone >= 1

(* 33 destructive calls, then 32 undo calls that succeeded and a 33rd that
   failed; the snapshots differ along the log. *)
C8_Witness ==
    /\ hist.phase = "undos"
    /\ Len(hist.log) = 33
    /\ hist.undone = 32
    /\ result = "NothingToUndo"
    /\ hist.log[2] # hist.log[33]

(* C9: in every reachable state the undo stack holds at most 32 entries and
   the redo stack holds at most 32 entries. *)
C9_StacksCapped == Len(undo_stack) <= 32 /\ Len(redo_stack) <= 32

(* redo pushed the 32nd entry onto the undo stack. *)
C9_Witness ==
    /\ call = "redo"
    /\ result = "Ok"
    /\ Len(undo_stack) = 32

(* C10: every successful destructive call leaves the redo stack empty, and a
   redo called right after it fails with NothingToRedo. *)
C10_DestructiveClearsRedo ==
    [][/\ (call' \in Destructive /\ result' = "Ok") => redo_stack' = <<>>
       /\ (call \in Destructive /\ result = "Ok" /\ call' = "redo")
             => (result' = "NothingToRedo" /\ UNCHANGED trackVars)]_vars

(* redo was refused right after a destructive call that followed an undo. *)
C10_Witness ==
    /\ saved.tag = "refused"
    /\ call = "redo"
    /\ result = "NothingToRedo"

(* C11: after recording n > 0 samples and stop_recording, a process_output
   call for n frames writes the n recorded samples in order and leaves the
   cursor at 0. *)
C11_PlaybackReproducesRecording ==
    [][(/\ session.phase = "stopped"
        /\ session.fed > 0
        /\ call' = "process_output"
        /\ Len(output') = session.fed)
          => /\ result' = "Ok"
             /\ output' = buffer[1]
             /\ cursor_pos' = 0]_vars

(* What the samples of input that fall on index j of a loop of L samples add
   up to, the first of them falling on cur mod L *)
RECURSIVE AddedAt(_, _, _, _, _)
AddedAt(input, cur, L, j, i) ==
    IF i > Len(input) THEN 0
    ELSE (IF (cur + (i - 1)) % L = j THEN input[i] ELSE 0)
             + AddedAt(input, cur, L, j, i + 1)

(* C12: in Overdubbing, process_input with m samples on a loop of L >= 1
   samples adds input[i] to the sample at index (cursor + i) mod L of the
   channel that is played, for every i < m, leaves every other sample, the
   buffer length and loop_length unchanged, and advances the cursor by m. *)
C12_OverdubMixes ==
    [][(call' = "process_input" /\ state = "Overdubbing" /\ len(buffer) >= 1)
          => LET L == len(buffer)
                 m == Len(last_input')
             IN  /\ result' = "Ok"
                 /\ Len(buffer') = Len(buffer)
                 /\ \A c \in 1..Len(buffer) : Len(buffer'[c]) = Len(buffer[c])
                 /\ \A j \in 0..(L - 1) :
                        buffer'[1][j + 1] =
                            buffer[1][j + 1]
                                + AddedAt(last_input', cursor_pos, L, j, 1)
                 /\ \A c \in 2..Len(buffer) : buffer'[c] = buffer[c]
                 /\ loop_length' = loop_length
                 /\ cursor_pos' = cursor_pos + m
                 /\ state' = "Overdubbing"]_vars

(* An overdubbed sample was mixed in at an index found by wrapping around the
   end of the loop. *)
C12_Witness ==
    /\ call = "process_input"
    /\ result = "Ok"
    /\ state = "Overdubbing"
    /\ Len(last_input) >= 1
    /\ cursor_pos > len(buffer)
    /\ len(buffer) >= 2
    /\ buffer[1] # buffer[2]

(* C13: no queue of the pool ever holds more than max_buffers storages. *)
C13_BucketCapped ==
    \A channels \in DOMAIN pool : Len(pool[channels]) <= max_buffers

AllZeroLength(data) == \A c \in 1..Len(data.chans) : data.chans[c].len = 0

(* C14: every storage get hands out has the channel count asked for, length
   0 in every channel and at least the capacity asked for in every channel. *)
C14_GetHandsOutEmptyReserved ==
    got # <<>>
        => /\ Len(got.data.chans) = got.channels
           /\ AllZeroLength(got.data)
           /\ \A c \in 1..Len(got.data.chans) :
                  got.data.chans[c].cap >= got.capacity

(* The storages owned by handles and stored in the pool, one entry each *)
Owned ==
    {<<"handle", h>> : h \in {x \in Handles : handles[x].pc # "free"}}
        \cup UNION {{<<"pool", channels, i>> : i \in 1..Len(pool[channels])} :
                       channels \in DOMAIN pool}
IdAt(place) ==
    IF place[1] = "handle" THEN handles[place[2]].data[1].id
    ELSE pool[place[2]][place[3]].id

(* C15: under every interleaving of get, write and the two steps of a drop,
   no storage is owned by two handles, nor stored in the pool twice, nor both
   stored in the pool and owned by a handle. *)
C15_ExclusiveOwnership ==
    \A p1, p2 \in Owned : IdAt(p1) = IdAt(p2) => p1 = p2

(* A storage that went through the pool is held again while another handle
   is between the two steps of its drop. *)
C15_Witness ==
    /\ got # <<>>
    /\ got.reused
    /\ \E h1, h2 \in Handles :
          /\ handles[h1].pc = "held"
          /\ handles[h1].data[1].id = got.data.id
          /\ handles[h2].pc = "returning"

(* C16: the BPM is strictly positive in every reachable state, and set_bpm
   with new_bpm <= 0 fails with an invalid-parameter error. *)
C16_BpmPositive ==
    /\ bpm > 0
    /\ (clock_call.op = "set_bpm" /\ clock_call.arg <= 0)
          => clock_call.ret = "InvalidParameter"

(* round(num / den) for num >= 0 and den > 0, halves upward *)
Round(num, den) == (2 * num + den) \div (2 * den)

(* C17: for every positive BPM, samples_per_beat() returns
   round(60 * sample_rate / bpm) for the BPM stored at the call. *)
C17_SamplesPerBeatRounded ==
    (clock_call.op = "samples_per_beat" /\ bpm > 0)
        => clock_call.ret = Round(60 * sample_rate, bpm)

(* C18: the sample counter equals the sum of the n of all advance calls made
   so far, in whatever order the threads made them: each advance adds
   exactly its n, no increment is lost, and set_bpm, samples_per_beat,
   get_position and the engine's process leave the counter alone. *)
C18_CounterIsSumOfAdvances == beat_counter = advanced.total

(* Two advance calls of different sizes were counted and a call of another
   kind followed. *)
C18_Witness ==
    /\ advanced.calls = 2
    /\ beat_counter = 22051
    /\ clock_call.op \in {"set_bpm", "get_position", "samples_per_beat"}

(* C19, for a positive BPM: get_position() is always defined and returns beat_index = counter
   div spb and beat_fraction = (counter mod spb) / spb in [0, 1), spb being
   samples_per_beat() for the BPM current at the call. *)
C19_PositionDefined ==
    (clock_call.op = "get_position" /\ bpm > 0)
        => LET spb == samples_per_beat(bpm, sample_rate)
               ret == clock_call.ret
           IN  /\ ~ret.panic
               /\ spb > 0
               /\ ret.current_beat = beat_counter \div spb
               /\ ret.beat_progress.num = beat_counter % spb
               /\ ret.beat_progress.den = spb
               /\ ret.beat_progress.num < ret.beat_progress.den

(* C20: each AudioEngine::process call with blocks of F frames advances the
   clock's sample counter by exactly F. *)
C20_ProcessAdvancesClock ==
    [][clock_call'.op = "process"
          => beat_counter' = beat_counter + clock_call'.arg]_vars

(* C21: during one AudioEngine::process callback a track in Recording or
   Overdubbing receives the callback's input through process_input, and the
   output block receives what process_output of a track in Playing or
   Overdubbing writes (one track: the sum is its output). *)
C21_ProcessRoutesAudio ==
    [][clock_call'.op = "process"
          => LET F == clock_call'.arg
             IN  /\ state = "Recording"
                       => buffer' = append(buffer, InputBlock(F))
                 /\ (state = "Overdubbing" /\ len(buffer) >= 1)
                       => buffer'[1] =
                              mix_loop(buffer[1], cursor_pos, InputBlock(F), 1)
                 /\ (state = "Playing" /\ len(buffer) >= 1
                        /\ EffectiveLength >= 1
                        /\ EffectiveLength <= len(buffer))
                       => clock_call'.out =
                              output_loop(buffer[1], EffectiveLength,
                                          cursor_pos, Silence(F), 1).output
                 /\ state = "Muted" => clock_call'.out = Silence(F)]_vars

(* C22: whatever happens to a track inside AudioEngine::process, the call
   returns success, a track that can be played is still played (its cursor
   moves on as process_output moves it), and the driver's callback returns
   Continue. *)
C22_TrackFailureDoesNotAbort ==
    [][/\ clock_call'.op = "process"
          => /\ clock_call'.ret = "Ok"
             /\ (state = "Playing" /\ len(buffer) >= 1
                    /\ EffectiveLength >= 1
                    /\ EffectiveLength <= len(buffer))
                   => cursor_pos' =
                          output_loop(buffer[1], EffectiveLength, cursor_pos,
                                      Silence(clock_call'.arg), 1).cursor_pos
       /\ clock_call'.op = "handler" => clock_call'.ret = "Continue"]_vars

(* C23: once false has been stored in the active flag the flag is false for
   good and is_active() answers false; every callback that starts after that
   returns Quit and does not call the engine; a callback that had started
   before runs to its end, calls the engine and returns Continue. *)
C23_InactiveIsFinal ==
    /\ callback.down => ~active
    /\ (callback.seen # "none" /\ callback.seen_down)
           => callback.seen = "false"
    /\ \A i \in 1..Len(callback.log) :
           LET c == callback.log[i]
           IN  /\ c.started_down => (c.ret = "Quit" /\ ~c.called)
               /\ ~c.started_down => (c.ret = "Continue" /\ c.called)

(* A shutdown fell inside one callback, which finished; the next callback
   quit; is_active answered false *)
C23_Witness ==
    /\ Len(callback.log) >= 2
    /\ callback.log[1].ret = "Continue"
    /\ ~callback.log[1].started_down
    /\ callback.log[1].ended_down
    /\ callback.log[2].ret = "Quit"
    /\ callback.seen = "false"

(* C24: in every state of an AudioBuffer all channels have the same
   length. *)
C24_ChannelsEqualLength ==
    \A c \in 1..Len(abuf.samples) : Len(abuf.samples[c]) = buf_len(abuf)

(* C25: append with the wrong number of slices fails with ChannelMismatch,
   mix with a buffer of another channel count or sample rate fails with
   BufferMismatch, and either leaves the buffer exactly as it was. *)
C25_MismatchRejectedUnchanged ==
    /\ (buf_call.op = "append"
          /\ Len(buf_call.slices) # buf_call.pre.channels)
           => (buf_call.ret = "ChannelMismatch" /\ abuf = buf_call.pre)
    /\ (buf_call.op = "mix"
          /\ (\/ buf_call.other.channels # buf_call.pre.channels
              \/ buf_call.other.sample_rate # buf_call.pre.sample_rate))
           => (buf_call.ret = "BufferMismatch" /\ abuf = buf_call.pre)

(* append with one slice too many or too few was refused on a buffer that
   holds samples *)
C25_Witness ==
    /\ buf_call.op = "append"
    /\ Len(buf_call.slices) # buf_call.pre.channels
    /\ buf_call.ret = "ChannelMismatch"
    /\ buf_len(buf_call.pre) >= 1

(* The sample i of a channel of a buffer of length n, 0 beyond *)
At(ch, i, n) == IF i <= n /\ i <= Len(ch) THEN ch[i] ELSE 0

(* C26: after a.mix(b, gain) on buffers of equal rate and channel count
   every channel of a has length max(len(a), len(b)) and holds at i the old
   a[c][i] (0 from len(a) on) plus b[c][i] * gain (0 from len(b) on); with
   gain 0 every sample a had is still there, unchanged. *)
C26_MixAddsScaled ==
    (buf_call.op = "mix" /\ buf_call.ret = "Ok")
       => LET a == buf_call.pre
              b == buf_call.other
              n == Max(buf_len(a), buf_len(b))
          IN  /\ buf_len(abuf) = n
              /\ \A c \in 1..a.channels :
                     /\ Len(abuf.samples[c]) = n
                     /\ \A i \in 1..n :
                            abuf.samples[c][i] =
                                At(a.samples[c], i, buf_len(a))
                                + At(b.samples[c], i, buf_len(b))
                                  * buf_call.gain * a.denom
              /\ buf_call.gain = 0
                    => \A c \in 1..a.channels :
                           /\ Len(abuf.samples[c]) >= Len(a.samples[c])
                           /\ SubSeq(abuf.samples[c], 1, Len(a.samples[c]))
                                 = a.samples[c]

(* The effects before the first one of es that fails, all of them if none
   fails *)
RECURSIVE OkPrefix(_)
OkPrefix(es) ==
    IF es = <<>> \/ Head(es).kind \in {"fail_a", "fail_b"}
    THEN 0
    ELSE 1 + OkPrefix(Tail(es))

(* The buffer after the first j effects of es, in the order of the list *)
RECURSIVE Applied(_, _, _)
Applied(es, buf, j) ==
    IF j = 0
    THEN buf
    ELSE effect_process(es[j], Applied(es, buf, j - 1)).buf

(* C27: process on a disabled chain returns Ok, calls no effect and leaves
   the buffer alone; on an enabled chain it calls the effects in the order
   of the list up to and including the first that fails, returns that
   effect's error (Ok if none fails), and the buffer holds the changes of
   the effects before it. *)
C27_ChainInOrderStopsAtFailure ==
    chain_call.op = "process"
       => LET es == chain_call.before
              j == OkPrefix(es)
          IN  IF ~chain.enabled
              THEN /\ chain_call.ret = "Ok"
                   /\ chain_call.buf = chain_call.pre
                   /\ chain.effects = es
              ELSE /\ chain_call.buf = Applied(es, chain_call.pre, j)
                   /\ chain_call.ret =
                          IF j = Len(es) THEN "Ok"
                          ELSE effect_process(es[j + 1], <<>>).ret
                   /\ \A k \in 1..Len(es) :
                          chain.effects[k].runs =
                              es[k].runs + (IF k <= j + 1 THEN 1 ELSE 0)

(* An enabled chain of add, double, a failing effect and something after it
   has been processed *)
C27_Witness ==
    /\ chain_call.op = "process"
    /\ chain.enabled
    /\ Len(chain.effects) = 3
    /\ chain.effects[1].kind = "add"
    /\ chain.effects[2].kind = "fail_a"
    /\ chain.effects[3].kind = "double"
    /\ chain_call.ret = "EffectError(a)"

(* C28: on a buffer of two or more channels append_mono(s) extends every
   channel by s, apply_gain(g) multiplies every sample by g, and to_mono()
   leaves one channel that holds at each index the mean of the channels
   there were. *)
C28_MonoOperations ==
    /\ (buf_call.op = "append_mono" /\ buf_call.pre.channels >= 2)
           => \A c \in 1..buf_call.pre.channels :
                  abuf.samples[c] =
                      buf_call.pre.samples[c]
                      \o [i \in 1..Len(buf_call.slices[1]) |->
                             buf_call.slices[1][i] * buf_call.pre.denom]
    /\ (buf_call.op = "apply_gain" /\ buf_call.pre.channels >= 2)
           => \A c \in 1..buf_call.pre.channels :
                  abuf.samples[c] =
                      [i \in 1..Len(buf_call.pre.samples[c]) |->
                          buf_call.pre.samples[c][i] * buf_call.gain]
    /\ (buf_call.op = "to_mono" /\ buf_call.pre.channels >= 2)
           => /\ buf_call.ret = "Ok"
              /\ abuf.channels = 1
              /\ Len(abuf.samples) = 1
              /\ Len(abuf.samples[1]) = buf_len(buf_call.pre)
              /\ \A i \in 1..buf_len(buf_call.pre) :
                     abuf.samples[1][i] * buf_call.pre.denom
                                        * buf_call.pre.channels
                       = channel_sum(buf_call.pre.samples, i,
                                     buf_call.pre.channels) * abuf.denom

(* The calls that are not transitions *)
NonTransitions ==
    {"apply_effects", "quantize", "undo", "redo", "process_input",
     "process_output"}

(* C29: the state changes only by a transition of the table (start_recording
   from Idle or Stopped to Recording, stop_recording from Recording or
   Overdubbing to Playing, start_overdub from Playing to Overdubbing);
   apply_effects, quantize, undo, redo, process_input and process_output
   leave state and loop_length as they are; process_input outside Recording
   and Overdubbing, and process_output outside Playing and Overdubbing,
   change nothing of the track and write nothing to the output. *)
C29_StateChangesOnlyByTable ==
    [][/\ state' # state
          => \/ /\ call' = "start_recording"
                /\ state \in {"Idle", "Stopped"}
                /\ state' = "Recording"
             \/ /\ call' = "stop_recording"
                /\ state \in {"Recording", "Overdubbing"}
                /\ state' = "Playing"
             \/ /\ call' = "start_overdub"
                /\ state = "Playing"
                /\ state' = "Overdubbing"
       /\ call' \in NonTransitions
          => (state' = state /\ loop_length' = loop_length)
       /\ (call' = "process_input" /\ state \notin {"Recording", "Overdubbing"})
          => UNCHANGED trackVars
       /\ (call' = "process_output" /\ state \notin {"Playing", "Overdubbing"})
          => /\ UNCHANGED trackVars
             /\ \A k \in 1..Len(output') : output'[k] = 0]_vars

(* process_output was called with a slice of at least one frame on a track
   that is recording and holds samples *)
C29_Witness ==
    /\ call = "process_output"
    /\ result = "Ok"
    /\ state = "Recording"
    /\ len(buffer) >= 1
    /\ Len(output) >= 1

(* C30: process_input and process_output never index a sample outside the
   buffer and never take a remainder by zero, whatever calls came before. *)
C30_NoOutOfRangeNoZeroRemainder ==
    call \in {"process_input", "process_output"} => result # "Panic"

(* C31: once the track has left Idle its state is Recording, Playing or
   Overdubbing for good (never Idle, Stopped or Muted again); start_recording
   succeeds at most once, and a start_recording called on a track that has
   left Idle fails with InvalidStateTransition. *)
C31_IdleIsLeftForGood ==
    /\ (started.left \/ state # "Idle")
           => state \in {"Recording", "Playing", "Overdubbing"}
    /\ started.starts <= 1
    /\ (call = "start_recording" /\ started.left)
           => result = "InvalidStateTransition"

(* start_recording was refused on a track that had recorded a loop and is
   playing it *)
C31_Witness ==
    /\ call = "start_recording"
    /\ result = "InvalidStateTransition"
    /\ started.starts = 1
    /\ started.left
    /\ state = "Playing"
    /\ len(buffer) >= 1

====
